---- MODULE Spec2Model ----
(***************************************************************************)
(* State-machine model of qbraid/_archive/circuits/circuit.py: a Circuit   *)
(* owns an ordered list of Moment objects and a ParameterTable; append     *)
(* places Instructions, Moments and sub-circuits under an UpdateRule.      *)
(*                                                                         *)
(* Moment objects live on a heap (heap[m] is the instruction list of the   *)
(* Moment object m), because the code stores references: the same Moment   *)
(* object can sit in several circuits, or twice in one.  An object is      *)
(* named <<owner, n>>: the n-th Moment constructed by circuit `owner`      *)
(* (owner 0: constructed by the caller).                                   *)
(***************************************************************************)
EXTENDS Integers, Sequences, FiniteSets, TLC

(* ------------------------------ bounds --------------------------------- *)
\* length of the moment list of circuit 1, the circuit under test
MaxLen == 2
\* length of the moment list of circuit 2, the circuit used as a sub-circuit
MaxSub == 1
\* length of a list handed to append
MaxSeq == 2
\* number of Moment objects built outside the circuits
MaxBuilt == 1
\* largest absolute value of an index handed to _update
MaxIndex == 4
\* length of the moment list that _update is called on directly
MaxInsert == 3
\* length of a refresh token and of the text of a RequestException
MaxText == 2

(* ------------------------- the input universe -------------------------- *)
\* three circuits: Circuit(2), Circuit(3) and a second Circuit(2), the twin of
\* the first
Circuits == {1, 2, 3}
NumQubits == <<2, 3, 2>>

\* Parameter objects (identity) and their display names; s1 and s2 are
\* distinct objects with the same name
Symbols == {"s1", "s2", "s3"}
SymName == [s \in Symbols |-> IF s = "s3" THEN "phi" ELSE "theta"]

\* Instruction objects (identity = index): qubits touched and gate.params
\* ("num" stands for a numeric argument). 1..4 carry no Parameter, 5..8 do.
OpQubits == << {0}, {1}, {0, 1}, {2}, {0}, {1}, {1}, {2} >>
OpParams == << <<>>, <<>>, <<>>, <<>>,
               <<"s1", "num">>, <<"s1">>, <<"s3", "s2">>, <<"s2">> >>
OpIds == DOMAIN OpQubits
PlainOps == {o \in OpIds : OpParams[o] = <<>>}
ParamOps == OpIds \ PlainOps

Rules == {"EARLIEST", "INLINE", "NEW", "NEW_THEN_INLINE"}
\* update_rule argument of append: a rule, None, or a value outside the enum
RuleArgs == Rules \cup {"None", "BAD"}

NoOp == 0
OK == "ok"

VARIABLES
    heap,         \* heap[m] = the _instructions of Moment object m; m = <<owner, n>>
    moms,         \* moms[c] = Circuit c's _moments, a list of Moment objects
    table,        \* table[c] = Circuit c's _parameter_table: Parameter -> bindings
    update_rule,  \* update_rule[c] = Circuit c's default rule
    call,         \* arguments of the most recent call
    err,          \* its outcome: OK or the error raised
    session,      \* the QbraidSession: _user_email, _refresh_token and headers
    environ,      \* what the session reads: the qbraidrc file and JUPYTERHUB_USER
    message       \* text of the RequestsApiError raised by the last request

vars == <<heap, moms, table, update_rule, call, err, session, environ, message>>

(* ------------------------------ Moment --------------------------------- *)
\* Moment.appendable(op)
Appendable(instrs, op) ==
    \A i \in 1..Len(instrs) : OpQubits[instrs[i]] \cap OpQubits[op] = {}

\* Moment.append(op) on the Moment object m
MomentAppend(st, m, op) ==
    IF Appendable(st.heap[m], op)
    THEN [st EXCEPT !.heap[m] = Append(@, op)]
    ELSE [st EXCEPT !.err = "ResourceConflict"]

\* utils.validate_operation on an Instruction / on a Moment's instructions
ValidInstruction(op, n) == \A q \in OpQubits[op] : q < n
ValidMoment(instrs, n) == \A i \in 1..Len(instrs) : ValidInstruction(instrs[i], n)

(* --------------------------- ParameterTable ---------------------------- *)
\* ParameterTable.get_names()
GetNames(t) == {SymName[s] : s \in DOMAIN t}

\* mutant: the slot is compared off by one
CheckDupParamSpecOffByOne(parameter_spec_list, instruction, param_index) ==
    \E i \in 1..Len(parameter_spec_list) :
        /\ parameter_spec_list[i][1] = instruction
        /\ parameter_spec_list[i][2] = param_index + 1

\* Circuit._check_dup_param_spec
CheckDupParamSpec(parameter_spec_list, instruction, param_index) ==
    \E i \in 1..Len(parameter_spec_list) :
        /\ parameter_spec_list[i][1] = instruction
        /\ parameter_spec_list[i][2] = param_index

\* mutant: a new Parameter is registered without the name check
AddParameterNoNameCheck(st, c, instruction, i) ==
    LET param == OpParams[instruction][i]
        t     == st.table[c]
    IN  IF param \notin Symbols THEN st
        ELSE IF param \in DOMAIN t
        THEN IF CheckDupParamSpec(t[param], instruction, i - 1)
             THEN st
             ELSE [st EXCEPT !.table[c][param] = Append(@, <<instruction, i - 1>>)]
        ELSE [st EXCEPT !.table[c] =
                  [s \in DOMAIN t \cup {param} |->
                      IF s = param THEN << <<instruction, i - 1>> >> ELSE t[s]]]

\* mutant: a further binding is put in front of the recorded ones
AddParameterInFront(st, c, instruction, i) ==
    LET param == OpParams[instruction][i]
        t     == st.table[c]
    IN  IF param \notin Symbols THEN st
        ELSE IF param \in DOMAIN t
        THEN IF CheckDupParamSpec(t[param], instruction, i - 1)
             THEN st
             ELSE [st EXCEPT !.table[c][param] = << <<instruction, i - 1>> >> \o @]
        ELSE IF SymName[param] \in GetNames(t)
             THEN [st EXCEPT !.err = "NameConflict"]
             ELSE [st EXCEPT !.table[c] =
                       [s \in DOMAIN t \cup {param} |->
                           IF s = param THEN << <<instruction, i - 1>> >> ELSE t[s]]]

\* mutant: a further binding replaces the recorded ones
AddParameterOverwrite(st, c, instruction, i) ==
    LET param == OpParams[instruction][i]
        t     == st.table[c]
    IN  IF param \notin Symbols THEN st
        ELSE IF param \in DOMAIN t
        THEN IF CheckDupParamSpec(t[param], instruction, i - 1)
             THEN st
             ELSE [st EXCEPT !.table[c][param] = << <<instruction, i - 1>> >>]
        ELSE IF SymName[param] \in GetNames(t)
             THEN [st EXCEPT !.err = "NameConflict"]
             ELSE [st EXCEPT !.table[c] =
                       [s \in DOMAIN t \cup {param} |->
                           IF s = param THEN << <<instruction, i - 1>> >> ELSE t[s]]]

\* one iteration of the loop of Circuit._add_parameters (slot = i - 1)
AddParameter(st, c, instruction, i) ==
    LET param == OpParams[instruction][i]
        t     == st.table[c]
    IN  IF param \notin Symbols THEN st
        ELSE IF param \in DOMAIN t
        THEN IF CheckDupParamSpec(t[param], instruction, i - 1)
             THEN st
             ELSE [st EXCEPT !.table[c][param] = Append(@, <<instruction, i - 1>>)]
        ELSE IF SymName[param] \in GetNames(t)
             THEN [st EXCEPT !.err = "NameConflict"]
             ELSE [st EXCEPT !.table[c] =
                       [s \in DOMAIN t \cup {param} |->
                           IF s = param THEN << <<instruction, i - 1>> >> ELSE t[s]]]

RECURSIVE AddParametersFrom(_, _, _, _)
AddParametersFrom(st, c, instruction, i) ==
    IF i > Len(OpParams[instruction]) \/ st.err # OK THEN st
    ELSE AddParametersFrom(AddParameter(st, c, instruction, i), c, instruction, i + 1)

\* Circuit._add_parameters
AddParameters(st, c, instruction) == AddParametersFrom(st, c, instruction, 1)

(* ------------------------------ Circuit -------------------------------- *)
\* Circuit._create_new_moment(op); op = NoOp is the call without argument
\* Moment(): a fresh object, the next one of its owner
Owned(h, a) == {m \in DOMAIN h : m[1] = a}
NewId(h, a) == <<a, Cardinality(Owned(h, a)) + 1>>
Alloc(h, m, instrs) == [x \in DOMAIN h \cup {m} |-> IF x = m THEN instrs ELSE h[x]]

\* mutant: the operation is pushed onto the last Moment's list instead of
\* onto the new Moment's
CreateNewMomentIntoLast(st, c, op) ==
    LET new_moment == NewId(st.heap, c) IN
    IF op = NoOp \/ st.moms[c] = <<>>
    THEN [st EXCEPT !.heap = Alloc(@, new_moment, IF op = NoOp THEN <<>> ELSE <<op>>),
                    !.moms[c] = Append(@, new_moment)]
    ELSE [st EXCEPT !.heap = Alloc([@ EXCEPT ![st.moms[c][Len(st.moms[c])]] = Append(@, op)],
                                   new_moment, <<>>),
                    !.moms[c] = Append(@, new_moment)]

\* mutant: where the new Moment goes depends on how many Moment objects exist
CreateNewMomentByAddress(st, c, op) ==
    LET new_moment == NewId(st.heap, c) IN
    [st EXCEPT !.heap = Alloc(@, new_moment, IF op = NoOp THEN <<>> ELSE <<op>>),
               !.moms[c] = IF Cardinality(DOMAIN st.heap) % 2 = 0
                           THEN Append(@, new_moment)
                           ELSE <<new_moment>> \o @]

CreateNewMoment(st, c, op) ==
    LET new_moment == NewId(st.heap, c) IN
    [st EXCEPT !.heap = Alloc(@, new_moment, IF op = NoOp THEN <<>> ELSE <<op>>),
               !.moms[c] = Append(@, new_moment)]

\* mutant: `appended = True` is missing
RECURSIVE EarliestFromNoFlag(_, _, _, _, _)
EarliestFromNoFlag(st, c, op, i, appended) ==
    IF i > Len(st.moms[c]) THEN [st |-> st, appended |-> appended]
    ELSE LET m == st.moms[c][i] IN
         IF Appendable(st.heap[m], op)
         THEN EarliestFromNoFlag([st EXCEPT !.heap[m] = Append(@, op)], c, op, i + 1, appended)
         ELSE EarliestFromNoFlag(st, c, op, i + 1, appended)

\* Circuit._earliest_appended: the loop over self._moments from position i on;
\* the result carries the flag `appended`
RECURSIVE EarliestFrom(_, _, _, _, _)
EarliestFrom(st, c, op, i, appended) ==
    IF i > Len(st.moms[c]) THEN [st |-> st, appended |-> appended]
    ELSE LET m == st.moms[c][i] IN
         IF Appendable(st.heap[m], op)
         THEN EarliestFrom(MomentAppend(st, m, op), c, op, i + 1, TRUE)
         ELSE EarliestFrom(st, c, op, i + 1, appended)

EarliestAppendedNoFlag(st, c, op) == EarliestFromNoFlag(st, c, op, 1, FALSE)

EarliestAppended(st, c, op) == EarliestFrom(st, c, op, 1, FALSE)

\* mutant: the test of moment 0 is inverted
PlaceNewInverted(st, c, op) ==
    IF st.moms[c] = <<>> THEN [st EXCEPT !.err = "IndexError"]
    ELSE IF st.heap[st.moms[c][1]] # <<>>
         THEN [st EXCEPT !.heap[st.moms[c][1]] = Append(@, op)]
         ELSE LET new_moment == NewId(st.heap, c) IN
              [st EXCEPT !.heap = Alloc(@, new_moment, <<op>>),
                         !.moms[c] = Append(@, new_moment)]

\* the NEW_THEN_INLINE / NEW placement: seed moment 0 when it is empty,
\* else open a new moment
PlaceNew(st, c, op) ==
    IF st.moms[c] = <<>> THEN [st EXCEPT !.err = "IndexError"]
    ELSE IF st.heap[st.moms[c][1]] = <<>>
         THEN MomentAppend(st, st.moms[c][1], op)
         ELSE CreateNewMoment(st, c, op)

\* mutant: self._moments[0] instead of self._moments[-1]
PlaceInlineFirst(st, c, op) ==
    IF st.moms[c] = <<>> THEN [st EXCEPT !.err = "IndexError"]
    ELSE LET curr_moment == st.moms[c][1] IN
         IF Appendable(st.heap[curr_moment], op)
         THEN [st EXCEPT !.heap[curr_moment] = Append(@, op)]
         ELSE LET new_moment == NewId(st.heap, c) IN
              [st EXCEPT !.heap = Alloc(@, new_moment, <<op>>),
                         !.moms[c] = Append(@, new_moment)]

\* the INLINE placement
PlaceInline(st, c, op) ==
    IF st.moms[c] = <<>> THEN [st EXCEPT !.err = "IndexError"]
    ELSE LET curr_moment == st.moms[c][Len(st.moms[c])] IN
         IF Appendable(st.heap[curr_moment], op)
         THEN MomentAppend(st, curr_moment, op)
         ELSE CreateNewMoment(st, c, op)

\* the EARLIEST placement
PlaceEarliest(st, c, op) ==
    LET r == EarliestAppended(st, c, op) IN
    IF r.appended THEN r.st ELSE CreateNewMoment(r.st, c, op)

\* mutant: NEW_THEN_INLINE does not switch the rule to INLINE
UpdateInstructionNoSwitch(st, c, op, rule) ==
    IF ~ValidInstruction(op, NumQubits[c])
    THEN [st |-> [st EXCEPT !.err = "OutOfRangeResource"], rule |-> rule]
    ELSE LET s1 == AddParameters(st, c, op) IN
         IF s1.err # OK THEN [st |-> s1, rule |-> rule]
         ELSE CASE rule = "NEW_THEN_INLINE" -> [st |-> PlaceNew(s1, c, op), rule |-> rule]
                [] rule = "INLINE"          -> [st |-> PlaceInline(s1, c, op), rule |-> rule]
                [] rule = "NEW"             -> [st |-> PlaceNew(s1, c, op), rule |-> rule]
                [] rule = "EARLIEST"        -> [st |-> PlaceEarliest(s1, c, op), rule |-> rule]
                [] OTHER -> [st |-> [s1 EXCEPT !.err = "UnsupportedUpdateRule"], rule |-> rule]

\* Circuit._update, the Instruction branch; returns the state and the rule
\* the loop continues with
UpdateInstruction(st, c, op, rule) ==
    IF ~ValidInstruction(op, NumQubits[c])
    THEN [st |-> [st EXCEPT !.err = "OutOfRangeResource"], rule |-> rule]
    ELSE LET s1 == AddParameters(st, c, op) IN
         IF s1.err # OK THEN [st |-> s1, rule |-> rule]
         ELSE CASE rule = "NEW_THEN_INLINE" -> [st |-> PlaceNew(s1, c, op), rule |-> "INLINE"]
                [] rule = "INLINE"          -> [st |-> PlaceInline(s1, c, op), rule |-> rule]
                [] rule = "NEW"             -> [st |-> PlaceNew(s1, c, op), rule |-> rule]
                [] rule = "EARLIEST"        -> [st |-> PlaceEarliest(s1, c, op), rule |-> rule]
                [] OTHER -> [st |-> [s1 EXCEPT !.err = "UnsupportedUpdateRule"], rule |-> rule]

\* mutant: a negative index is not counted from the end
NormIndexNoWrap(index, len) ==
    LET b == IF index < len THEN index ELSE len
    IN  IF b > 0 THEN b ELSE 0

\* the insertion position computed in the Moment branch of Circuit._update
NormIndex(index, len) ==
    LET a == IF index >= 0 THEN index ELSE len + index
        b == IF a < len THEN a ELSE len
    IN  IF b > 0 THEN b ELSE 0

\* list.insert(k, x), k in 0..Len(s)
InsertAt(s, k, x) == SubSeq(s, 1, k) \o <<x>> \o SubSeq(s, k + 1, Len(s))

RECURSIVE AddParametersAll(_, _, _, _)
AddParametersAll(st, c, instrs, i) ==
    IF i > Len(instrs) \/ st.err # OK THEN st
    ELSE AddParametersAll(AddParameters(st, c, instrs[i]), c, instrs, i + 1)

\* mutant: the Moment is registered and inserted without validation
UpdateMomentUnchecked(st, c, m, index) ==
    LET k  == NormIndex(index, Len(st.moms[c]))
        s1 == AddParametersAll(st, c, st.heap[m], 1)
    IN  IF s1.err # OK THEN s1
        ELSE [s1 EXCEPT !.moms[c] = InsertAt(@, k, m)]

\* Circuit._update, the Moment branch
UpdateMoment(st, c, m, index) ==
    LET k == NormIndex(index, Len(st.moms[c])) IN
    IF ValidMoment(st.heap[m], NumQubits[c])
    THEN LET s1 == AddParametersAll(st, c, st.heap[m], 1) IN
         IF s1.err # OK THEN s1
         ELSE [s1 EXCEPT !.moms[c] = InsertAt(@, k, m)]
    ELSE [st EXCEPT !.err = "InvalidOperation"]

\* elements of an appended list
OpElem(o) == [k |-> "op", id |-> o]
MomentElem(m) == [k |-> "moment", id |-> m]
CircuitElem(c) == [k |-> "circuit", id |-> c]
JunkElem == [k |-> "junk", id |-> 0]

RECURSIVE Update(_, _, _, _, _, _)
RECURSIVE AppendCircuit(_, _, _, _, _)
RECURSIVE DoAppend(_, _, _, _)

\* Circuit._update: the loop over `operation` from position i on
Update(st, c, operation, i, rule, index) ==
    IF i > Len(operation) \/ st.err # OK THEN st
    ELSE LET op == operation[i] IN
         CASE op.k = "op" ->
                LET r == UpdateInstruction(st, c, op.id, rule)
                IN  Update(r.st, c, operation, i + 1, r.rule, index)
           [] op.k = "moment" ->
                Update(UpdateMoment(st, c, op.id, index), c, operation, i + 1, rule, index)
           [] op.k = "circuit" ->
                Update(AppendCircuit(st, c, op.id, rule, 1), c, operation, i + 1, rule, index)
           [] OTHER -> Update(st, c, operation, i + 1, rule, index)

\* Circuit._append_circuit: the loop over circuit.moments from position j on
AppendCircuit(st, c, circuit, rule, j) ==
    IF j > Len(st.moms[circuit]) \/ st.err # OK THEN st
    ELSE LET moment == st.moms[circuit][j] IN
         IF ValidMoment(st.heap[moment], NumQubits[c])
         THEN AppendCircuit(
                  DoAppend(st, c, [kind |-> "single", elems |-> <<MomentElem(moment)>>], rule),
                  c, circuit, rule, j + 1)
         ELSE [st EXCEPT !.err = "InvalidOperation"]

\* mutant: a call that fails restores the Moments it found
DoAppendAtomic(st, c, operation, rule) ==
    IF operation.kind = "none" THEN [st EXCEPT !.err = "TypeMismatch"]
    ELSE LET r == IF rule = "None" THEN st.update_rule[c] ELSE rule IN
         IF operation.kind = "single"
         THEN DoAppend(st, c, [kind |-> "list", elems |-> operation.elems], r)
         ELSE LET elems == operation.elems
                  s1 == IF st.moms[c] # <<>> THEN st
                        ELSE IF elems = <<>> THEN [st EXCEPT !.err = "IndexError"]
                        ELSE IF elems[1].k = "op" THEN CreateNewMoment(st, c, NoOp)
                        ELSE st
                  s2 == Update(s1, c, elems, 1, r, Len(s1.moms[c]))
              IN  IF s1.err # OK THEN s1
                  ELSE IF s2.err # OK THEN [s1 EXCEPT !.err = s2.err]
                  ELSE s2

\* Circuit.append(operation, update_rule=rule)
DoAppend(st, c, operation, rule) ==
    IF operation.kind = "none" THEN [st EXCEPT !.err = "TypeMismatch"]
    ELSE LET r == IF rule = "None" THEN st.update_rule[c] ELSE rule IN
         IF operation.kind = "single"
         THEN DoAppend(st, c, [kind |-> "list", elems |-> operation.elems], r)
         ELSE LET elems == operation.elems
                  s1 == IF st.moms[c] # <<>> THEN st
                        ELSE IF elems = <<>> THEN [st EXCEPT !.err = "IndexError"]
                        ELSE IF elems[1].k = "op" THEN CreateNewMoment(st, c, NoOp)
                        ELSE st
              IN  IF s1.err # OK THEN s1
                  ELSE Update(s1, c, elems, 1, r, Len(s1.moms[c]))

\* mutant: each Moment's instructions are put in front of the collected ones
RECURSIVE InstructionsReversedFrom(_, _, _, _)
InstructionsReversedFrom(h, ms, i, instructions_list) ==
    IF i > Len(ms) THEN instructions_list
    ELSE InstructionsReversedFrom(h, ms, i + 1, h[ms[i]] \o instructions_list)

InstructionsReversed(h, ms) == InstructionsReversedFrom(h, ms, 1, <<>>)

\* Circuit.instructions: the loop `instructions_list.extend(moment.instructions)`
\* over the moment list ms from position i on
RECURSIVE InstructionsFrom(_, _, _, _)
InstructionsFrom(h, ms, i, instructions_list) ==
    IF i > Len(ms) THEN instructions_list
    ELSE InstructionsFrom(h, ms, i + 1, instructions_list \o h[ms[i]])

Instructions(h, ms) == InstructionsFrom(h, ms, 1, <<>>)

\* Circuit.num_gates: len(list(itertools.chain(self.instructions)))
NumGates(h, ms) == Len(Instructions(h, ms))

(* ------------------------------ actions -------------------------------- *)
State == [heap |-> heap, moms |-> moms, table |-> table,
          update_rule |-> update_rule, err |-> OK]

SeqsFrom(S, lo, hi) == UNION {[1..k -> S] : k \in lo..hi}
Single(e) == [kind |-> "single", elems |-> <<e>>]
List(l) == [kind |-> "list", elems |-> l]
OpList(l) == List([i \in 1..Len(l) |-> OpElem(l[i])])
MomentList(l) == List([i \in 1..Len(l) |-> MomentElem(l[i])])

Within(st) ==
    /\ Len(st.moms[1]) <= MaxLen
    /\ Len(st.moms[2]) <= MaxSub
    /\ Len(st.moms[3]) <= MaxLen

\* a call c.append(item, mapping=mapping, update_rule=rule), run to its return
\* or its raise; append hands `mapping` on to itself and never reads it
CallFrom(st, c, item, mapping, rule) ==
    LET r == DoAppend(st, c, item, rule) IN
       /\ Within(r)
       /\ heap' = r.heap
       /\ moms' = r.moms
       /\ table' = r.table
       /\ err' = r.err
       /\ call' = [op |-> "append", c |-> c, item |-> item, mapping |-> mapping,
                   rule |-> rule]
       /\ UNCHANGED <<update_rule, session, environ, message>>

Call(c, item, rule) == CallFrom(State, c, item, "None", rule)

\* c.append(Moment(instrs), update_rule=rule): the Moment is built for the call
AppendNewMoment(c, instrs, rule) ==
    LET m == NewId(heap, 0) IN
    CallFrom([State EXCEPT !.heap = Alloc(@, m, instrs)], c, Single(MomentElem(m)),
             "None", rule)

\* c._update([Moment(instrs)], c.update_rule, index): the method append drives,
\* called with an index of the caller's choice
UpdateNewMoment(c, instrs, index) ==
    LET m == NewId(heap, 0)
        r == Update([State EXCEPT !.heap = Alloc(@, m, instrs)], c, <<MomentElem(m)>>, 1,
                    update_rule[c], index)
    IN /\ Len(r.moms[c]) <= MaxInsert
       /\ heap' = r.heap
       /\ moms' = r.moms
       /\ table' = r.table
       /\ err' = r.err
       /\ call' = [op |-> "_update", c |-> c, item |-> List(<<MomentElem(m)>>),
                   mapping |-> "None", rule |-> "None", index |-> index]
       /\ UNCHANGED <<update_rule, session, environ, message>>

AppendOp(c, o, rule) == Call(c, Single(OpElem(o)), rule)
AppendOps(c, l, rule) == Call(c, OpList(l), rule)
AppendMoment(c, m, rule) == Call(c, Single(MomentElem(m)), rule)
AppendMoments(c, l, rule) == Call(c, MomentList(l), rule)
AppendSub(c, sub, rule) == c # sub /\ Call(c, Single(CircuitElem(sub)), rule)
AppendSubMapped(c, sub, mapping, rule) ==
    c # sub /\ CallFrom(State, c, Single(CircuitElem(sub)), mapping, rule)
AppendNone(c, rule) == Call(c, [kind |-> "none", elems |-> <<>>], rule)
AppendJunk(c, rule) == Call(c, Single(JunkElem), rule)

\* c.append(sub, update_rule=rule) for a Circuit sub, taken one iteration of the
\* loop of _append_circuit at a time: the loop runs over the list sub.moments
\* itself, which is c's own list when sub is c.  While the call runs, err is
\* "running", call.j counts the Moments the loop has taken and call.n0 is the
\* length of sub.moments when the call began.
Idle == err # "running"

\* append up to the first iteration: a Circuit is wrapped into a list, no
\* Moment is created, _update reaches _append_circuit
BeginAppendCircuit(c, sub, rule) ==
    /\ Idle
    /\ err' = "running"
    /\ call' = [op |-> "_append_circuit", c |-> c, item |-> Single(CircuitElem(sub)),
                mapping |-> "None",
                rule |-> IF rule = "None" THEN update_rule[c] ELSE rule,
                j |-> 0, n0 |-> Len(moms[sub])]
    /\ UNCHANGED <<heap, moms, table, update_rule, session, environ, message>>

\* one iteration: the next Moment of the list is validated and appended to c
IterateAppendCircuit ==
    /\ err = "running"
    /\ LET c   == call.c
           sub == call.item.elems[1].id
       IN  /\ call.j < Len(moms[sub])
           /\ LET moment == moms[sub][call.j + 1] IN
              IF ValidMoment(heap[moment], NumQubits[c])
              THEN LET r == DoAppend(State, c, Single(MomentElem(moment)), call.rule) IN
                   /\ Within(r)
                   /\ heap' = r.heap
                   /\ moms' = r.moms
                   /\ table' = r.table
                   /\ err' = IF r.err = OK THEN "running" ELSE r.err
              ELSE /\ err' = "InvalidOperation"
                   /\ UNCHANGED <<heap, moms, table>>
    /\ call' = [call EXCEPT !.j = @ + 1]
    /\ UNCHANGED <<update_rule, session, environ, message>>

\* the list is exhausted: the loop ends and append returns
ReturnAppendCircuit ==
    /\ err = "running"
    /\ call.j >= Len(moms[call.item.elems[1].id])
    /\ err' = OK
    /\ UNCHANGED <<heap, moms, table, update_rule, call, session, environ, message>>

\* Moment(instrs), instrs empty or one Instruction, built by the caller
NewMoment(instrs) ==
    /\ Cardinality(Owned(heap, 0)) < MaxBuilt
    /\ heap' = Alloc(heap, NewId(heap, 0), instrs)
    /\ err' = OK
    /\ call' = [op |-> "Moment", c |-> 0, item |-> OpList(instrs), mapping |-> "None",
                rule |-> "None"]
    /\ UNCHANGED <<moms, table, update_rule, session, environ, message>>

NoCall == [op |-> "init", c |-> 0, item |-> List(<<>>), mapping |-> "None",
           rule |-> "None"]

\* the twin circuits 1 and 3 have received the same calls
InSync == call.c # 1

\* circuit 3 is handed the call circuit 1 has just been handed; a Moment built
\* for that call is built again, with the same instructions
Replay ==
    /\ call.op = "append"
    /\ call.c = 1
    /\ IF call.item.kind = "single" /\ call.item.elems[1].k = "moment"
       THEN AppendNewMoment(3, heap[call.item.elems[1].id], call.rule)
       ELSE Call(3, call.item, call.rule)

(* --------------------------- QbraidSession ----------------------------- *)
\* A text is a sequence of characters.  A value that Python treats as false
\* (None or the empty string) is "" for an e-mail and <<>> for a text.
Chars == {"t", "."}
Texts == SeqsFrom(Chars, 0, MaxText)
Tokens == SeqsFrom(Chars, 1, MaxText)
Parts == SeqsFrom(Chars, 0, 1)
Emails == {"a", "b"}
HubUser == "hub"
\* the refresh tokens the credential assignments are driven with
SomeTokens == {<<"t">>, <<".">>}

\* no qbraidrc file, or none with the section and the keys
NoConfig == [email |-> "", token |-> <<>>]
Configs == {NoConfig, [email |-> "b", token |-> <<".">>]}

\* requests.Session(): the default headers hold neither credential
NewSession == [user_email |-> "", refresh_token |-> <<>>,
               headers |-> [email |-> "", token |-> <<>>]]

\* get_config_variable(config_name)
GetConfigVariable(env, config_name) ==
    IF config_name = "email" THEN env.config.email ELSE env.config.token

\* the user_email setter
SetUserEmail(s, env, value) ==
    LET user_email == IF value # "" THEN value ELSE GetConfigVariable(env, "email")
    IN  [s EXCEPT !.user_email = IF user_email # "" THEN user_email ELSE env.hub,
                  !.headers.email = IF user_email # "" THEN user_email ELSE @]

\* the refresh_token setter
SetRefreshToken(s, env, value) ==
    LET refresh_token == IF value # <<>> THEN value
                         ELSE GetConfigVariable(env, "refresh-token")
    IN  [s EXCEPT !.refresh_token = refresh_token,
                  !.headers.token = IF refresh_token # <<>> THEN refresh_token ELSE @]

\* QbraidSession(user_email=user_email, refresh_token=refresh_token)
Construct(env, user_email, refresh_token) ==
    SetRefreshToken(SetUserEmail(NewSession, env, user_email), env, refresh_token)

\* str.replace(old, new) for a non-empty old: the occurrences are found from
\* left to right and do not overlap
RECURSIVE Replace(_, _, _)
Replace(s, old, new) ==
    IF Len(s) < Len(old) THEN s
    ELSE IF SubSeq(s, 1, Len(old)) = old
         THEN new \o Replace(SubSeq(s, Len(old) + 1, Len(s)), old, new)
         ELSE <<s[1]>> \o Replace(Tail(s), old, new)

\* what super().request and raise_for_status do: a response comes back, or a
\* RequestException ex is raised, with str(ex) = ex and ex.response absent
\* ("none"), carrying the error json and the trace header ("json"), the error
\* json without the trace header ("untraced"), or no error json ("text")
Response(status) == [kind |-> "response", status |-> status]
Failure(ex, response, msg, text) ==
    [kind |-> "exception", ex |-> ex, response |-> response, msg |-> msg,
     text |-> text]
Failures ==
    {Failure(ex, "none", <<>>, <<>>) : ex \in Texts}
    \cup {Failure(ex, "json", msg, <<>>) : ex \in Texts, msg \in Parts}
    \cup {Failure(ex, "untraced", msg, <<"t">>) : ex \in Texts, msg \in Parts}
    \cup {Failure(ex, "text", <<>>, text) : ex \in Texts, text \in Parts}

\* f", Error code: {code}", the code written "#"
ErrorCode == <<",", " ", "#">>

\* the message request builds from the RequestException
Text(o) ==
    LET json == o.ex \o <<".", " ">> \o o.msg \o ErrorCode \o <<".">> IN
    CASE o.response = "none" -> o.ex
      [] o.response = "json" -> json
      [] o.response = "untraced" -> json \o <<".", " ">> \o o.text
      [] o.response = "text" -> o.ex \o <<".", " ">> \o o.text

\* request(method, url) when super().request behaves as o
RequestResult(s, o) ==
    IF o.kind = "response" THEN [err |-> OK, message |-> <<>>]
    ELSE [err |-> "RequestsApiError",
          message |-> IF s.refresh_token # <<>>
                      THEN Replace(Text(o), s.refresh_token, <<".", ".", ".">>)
                      ELSE Text(o)]

SessionCall(op, args) ==
    [op |-> op, c |-> 0, item |-> List(<<>>), mapping |-> "None", rule |-> "None",
     args |-> args]

\* session.user_email = value
AssignUserEmail(value) ==
    /\ session' = SetUserEmail(session, environ, value)
    /\ err' = OK
    /\ call' = SessionCall("user_email", <<value>>)
    /\ UNCHANGED <<heap, moms, table, update_rule, environ, message>>

\* session.refresh_token = value
AssignRefreshToken(value) ==
    /\ session' = SetRefreshToken(session, environ, value)
    /\ err' = OK
    /\ call' = SessionCall("refresh_token", <<value>>)
    /\ UNCHANGED <<heap, moms, table, update_rule, environ, message>>

\* session.save_config(user_email, refresh_token); GET /identity behaves as o
\* and, when it answers, names the user `email`
SaveConfig(user_email, refresh_token, o, email) ==
    LET s1 == SetUserEmail(session, environ,
                           IF user_email # "" THEN user_email ELSE session.user_email)
        s2 == SetRefreshToken(s1, environ,
                              IF refresh_token # <<>> THEN refresh_token
                              ELSE s1.refresh_token)
        res == RequestResult(s2, o)
        written == /\ res.err = OK
                   /\ o.status = 200 /\ s2.user_email = email
                   /\ s2.user_email # "" /\ s2.refresh_token # <<>>
    IN  /\ session' = s2
        /\ message' = res.message
        /\ err' = IF res.err # OK THEN res.err
                  ELSE IF o.status # 200 \/ s2.user_email # email THEN "AuthError"
                  ELSE IF s2.user_email = "" \/ s2.refresh_token = <<>>
                       THEN "ConfigError"
                  ELSE OK
        /\ environ' = IF written
                      THEN [environ EXCEPT !.config = [email |-> s2.user_email,
                                                       token |-> s2.refresh_token]]
                      ELSE environ
        /\ call' = SessionCall("save_config", <<user_email, refresh_token>>)
        /\ UNCHANGED <<heap, moms, table, update_rule>>

\* session.request(method, url); super().request behaves as o
Request(o) ==
    LET res == RequestResult(session, o) IN
    /\ err' = res.err
    /\ message' = res.message
    /\ call' = SessionCall("request", <<o>>)
    /\ UNCHANGED <<heap, moms, table, update_rule, session, environ>>

\* the circuits before any call
NoCircuits ==
    /\ heap = <<>>
    /\ moms = [c \in Circuits |-> <<>>]
    /\ table = [c \in Circuits |-> <<>>]
    /\ update_rule = <<"EARLIEST", "INLINE", "EARLIEST">>
    /\ call = NoCall
    /\ err = OK

\* Circuit(2), Circuit(3, update_rule=UpdateRule.INLINE) and Circuit(2); a
\* QbraidSession() where there is neither a qbraidrc file nor JUPYTERHUB_USER
Init ==
    /\ NoCircuits
    /\ environ = [config |-> NoConfig, hub |-> ""]
    /\ session = Construct(environ, "", <<>>)
    /\ message = <<>>

\* QbraidSession(user_email=user_email, refresh_token=refresh_token) where the
\* qbraidrc file and JUPYTERHUB_USER may be present
InitQ ==
    /\ NoCircuits
    /\ \E config \in Configs, hub \in {"", HubUser} :
          environ = [config |-> config, hub |-> hub]
    /\ \E user_email \in Emails \cup {""}, refresh_token \in SomeTokens \cup {<<>>} :
          session = Construct(environ, user_email, refresh_token)
    /\ message = <<>>

\* QbraidSession(user_email="a", refresh_token=refresh_token)
InitR ==
    /\ NoCircuits
    /\ environ = [config |-> NoConfig, hub |-> ""]
    /\ \E refresh_token \in Tokens \cup {<<>>} :
          session = Construct(environ, "a", refresh_token)
    /\ message = <<>>

\* circuit 1 is handed Instructions without Parameters, None and an untyped value
Next ==
    \/ \E o \in PlainOps, rule \in Rules \cup {"BAD"} : AppendOp(1, o, rule)
    \/ \E l \in SeqsFrom(PlainOps, 2, MaxSeq), rule \in {"NEW", "NEW_THEN_INLINE"} : AppendOps(1, l, rule)
    \/ AppendNone(1, "None")
    \/ AppendJunk(1, "None")

\* ... and Moments, built by the caller or taken from a circuit, and circuit 2
\* as a sub-circuit, which is itself handed Instructions
NextM ==
    \/ Next
    \/ \E m \in DOMAIN heap, rule \in {"None", "BAD"} : AppendMoment(1, m, rule)
    \/ \E l \in SeqsFrom(DOMAIN heap, 2, MaxSeq) : AppendMoments(1, l, "None")
    \/ AppendSub(1, 2, "None")
    \/ \E o \in {1, 4} : AppendOp(2, o, "None")
    \/ \E instrs \in {<<>>, <<1>>, <<4>>} : NewMoment(instrs)

\* circuit 1 is handed Instructions that carry Parameters, alone or in a Moment
NextP ==
    \/ \E o \in ParamOps, rule \in {"NEW", "BAD"} : AppendOp(1, o, rule)
    \/ \E m \in DOMAIN heap : AppendMoment(1, m, "None")
    \/ \E o \in {6, 7, 8} : NewMoment(<<o>>)

\* the twin circuits 1 and 3 are driven by the same sequence of calls, circuit 1
\* first
NextD ==
    \/ \E o \in PlainOps, rule \in RuleArgs : InSync /\ AppendOp(1, o, rule)
    \/ \E l \in SeqsFrom({1, 2, 3}, 2, MaxSeq) : InSync /\ AppendOps(1, l, "NEW_THEN_INLINE")
    \/ \E instrs \in {<<>>, <<1>>, <<3>>} : InSync /\ AppendNewMoment(1, instrs, "None")
    \/ InSync /\ AppendJunk(1, "None")
    \/ Replay

\* a mapping of the qubits of circuit 2 to qubits of the parent: it swaps
\* qubits 0 and 1 (position q + 1 holds the image of qubit q)
Mappings == { <<1, 0, 2>> }

\* circuit 2 is built from Instructions and appended to circuit 1 as a
\* sub-circuit, with and without a mapping; circuit 1 is handed Instructions too
NextS ==
    \/ \E o \in {1, 2, 4} : AppendOp(2, o, "None")
    \/ AppendSub(1, 2, "None")
    \/ \E mapping \in Mappings : AppendSubMapped(1, 2, mapping, "None")
    \/ \E o \in {1, 2}, rule \in {"None", "NEW"} : AppendOp(1, o, rule)

\* circuit 1 is handed Moments at every index from -MaxIndex to MaxIndex
NextN ==
    \E instrs \in {<<>>, <<1>>}, index \in -MaxIndex..MaxIndex :
        UpdateNewMoment(1, instrs, index)

\* circuits 1 and 2 are built from Instructions; circuit 1 is handed circuit 2
\* and itself as a sub-circuit, one loop iteration at a time
NextL ==
    \/ \E o \in {1, 2}, rule \in {"None", "NEW"} : Idle /\ AppendOp(1, o, rule)
    \/ \E o \in {1, 4} : Idle /\ AppendOp(2, o, "None")
    \/ \E sub \in {1, 2} : BeginAppendCircuit(1, sub, "None")
    \/ IterateAppendCircuit
    \/ ReturnAppendCircuit

Spec == Init /\ [][Next]_vars

SpecM == Init /\ [][NextM]_vars

SpecP == Init /\ [][NextP]_vars

SpecD == Init /\ [][NextD]_vars

SpecS == Init /\ [][NextS]_vars

SpecN == Init /\ [][NextN]_vars

\* the credentials of a session are assigned and saved
NextQ ==
    \/ \E value \in Emails \cup {""} : AssignUserEmail(value)
    \/ \E value \in SomeTokens \cup {<<>>} : AssignRefreshToken(value)
    \/ \E user_email \in Emails \cup {""}, refresh_token \in SomeTokens \cup {<<>>},
          o \in {Response(200), Response(204), Failure(<<"t">>, "none", <<>>, <<>>)},
          email \in Emails \cup {"", HubUser} :
          SaveConfig(user_email, refresh_token, o, email)

\* a session sends requests that succeed or fail
NextR ==
    \/ Request(Response(200))
    \/ \E o \in Failures : Request(o)

SpecL == Init /\ [][NextL]_vars

SpecQ == InitQ /\ [][NextQ]_vars

SpecR == InitR /\ [][NextR]_vars

(* ------------------------------ claims --------------------------------- *)
\* the instruction list of the i-th moment of circuit c
Instrs(c, i) == heap[moms[c][i]]

\* the rule a recorded call ran under
EffRule(cl) == IF cl.rule = "None" THEN update_rule[cl.c] ELSE cl.rule

\* the recorded call is c.append(o, rule) for one Instruction o
IsOpCall(cl, o, rule) ==
    /\ cl.op = "append"
    /\ cl.item = Single(OpElem(o))
    /\ EffRule(cl) = rule

\* the recorded call appends Instructions only (one, or a list of them)
IsOpsCall(cl, rule) ==
    /\ cl.op = "append"
    /\ cl.item.kind # "none"
    /\ cl.item.elems # <<>>
    /\ \A i \in 1..Len(cl.item.elems) : cl.item.elems[i].k = "op"
    /\ EffRule(cl) = rule

CallOps(cl) == [i \in 1..Len(cl.item.elems) |-> cl.item.elems[i].id]

\* Moment objects that the step created or changed
Touched == {m \in DOMAIN heap' : m \notin DOMAIN heap \/ heap'[m] # heap[m]}

\* positions of circuit c whose Moment accepts o
AppendableAt(c, o) == {i \in 1..Len(moms[c]) : Appendable(Instrs(c, i), o)}

\* the step opened one Moment at the end of circuit c, holding exactly instrs,
\* and changed nothing else
OpensMoment(c, instrs) ==
    \E m \in DOMAIN heap' \ DOMAIN heap :
        /\ moms' = [moms EXCEPT ![c] = Append(@, m)]
        /\ heap' = Alloc(heap, m, instrs)

\* C1 (invariant I1): in every reachable state, the operations of every Moment
\* of every circuit touch pairwise disjoint sets of qubits.
C1_I1 ==
    \A c \in Circuits : \A i \in 1..Len(moms[c]) :
        \A a, b \in 1..Len(Instrs(c, i)) :
            a # b => OpQubits[Instrs(c, i)[a]] \cap OpQubits[Instrs(c, i)[b]] = {}

\* circuit 1 holds two Moments, one of them built outside it (by the caller or
\* by circuit 2) and since extended to two operations
C1_Witness ==
    /\ call.op = "append"
    /\ Len(moms[1]) = 2
    /\ \E i \in 1..2 : moms[1][i][1] # 1 /\ Len(Instrs(1, i)) = 2

\* C2: an Instruction appended under EARLIEST lands in exactly one Moment, the
\* lowest-index Moment that accepts it, and in no other.
C2_EarliestExactlyOnce ==
    [][\A o \in OpIds :
          (IsOpCall(call', o, "EARLIEST") /\ err' = OK) =>
              LET c == call'.c IN
              /\ Cardinality(Touched) = 1
              /\ AppendableAt(c, o) # {} =>
                    LET i0 == CHOOSE i \in AppendableAt(c, o) :
                                  \A j \in AppendableAt(c, o) : i <= j
                    IN  /\ moms' = moms
                        /\ heap' = [heap EXCEPT ![moms[c][i0]] = Append(@, o)]]_vars

\* C3: under EARLIEST the moment list stays as it is whenever some existing
\* Moment accepts the Instruction; when it grows, no existing Moment accepted
\* the Instruction and exactly one Moment was added at the end.
C3_EarliestNoNewMoment ==
    [][\A o \in OpIds :
          IsOpCall(call', o, "EARLIEST") =>
              LET c == call'.c IN
              /\ AppendableAt(c, o) # {} => moms'[c] = moms[c]
              /\ moms'[c] # moms[c] =>
                    /\ AppendableAt(c, o) = {}
                    /\ Len(moms'[c]) = Len(moms[c]) + 1
                    /\ SubSeq(moms'[c], 1, Len(moms[c])) = moms[c]]_vars

\* an EARLIEST append that joined an existing Moment: that Moment now holds
\* an earlier operation followed by the appended one
C3_Witness ==
    \E o \in OpIds :
        /\ IsOpCall(call, o, "EARLIEST")
        /\ err = OK
        /\ \E i \in 1..Len(moms[call.c]) :
              /\ Len(Instrs(call.c, i)) = 2
              /\ Instrs(call.c, i)[2] = o

\* C4: an Instruction appended under INLINE goes onto the Moment that was last
\* before the step when that Moment accepts it, and otherwise opens exactly one
\* new Moment at the end holding only it; no other Moment object changes.
C4_InlineLastOrNew ==
    [][\A o \in OpIds :
          (IsOpCall(call', o, "INLINE") /\ err' = OK) =>
              LET c  == call'.c
                  ms == moms[c]
              IN  IF ms # <<>> /\ Appendable(heap[ms[Len(ms)]], o)
                  THEN /\ moms' = moms
                       /\ heap' = [heap EXCEPT ![ms[Len(ms)]] = Append(@, o)]
                  ELSE OpensMoment(c, <<o>>)]_vars

\* an INLINE append that met a conflict in the last Moment and opened a new one
C4_Witness ==
    \E o \in OpIds :
        /\ IsOpCall(call, o, "INLINE")
        /\ err = OK
        /\ Len(moms[call.c]) = 2
        /\ Instrs(call.c, 2) = <<o>>
        /\ ~Appendable(Instrs(call.c, 1), o)

\* C5: under NEW, N valid Instructions appended (in one call) to a circuit
\* whose Moments hold one operation each - the empty circuit, or the result of
\* earlier such appends - add N Moments at the end, one operation each, in
\* arrival order.  Starting from the empty circuit this gives N Moments for N
\* operations, whether they came in one call or in N.
C5_NewOnePerMoment ==
    [][(IsOpsCall(call', "NEW") /\ err' = OK
           /\ \A i \in 1..Len(moms[call'.c]) : Len(Instrs(call'.c, i)) = 1) =>
          LET c   == call'.c
              ops == CallOps(call')
              n   == Len(moms[c])
          IN  /\ Len(moms'[c]) = n + Len(ops)
              /\ SubSeq(moms'[c], 1, n) = moms[c]
              /\ \A m \in DOMAIN heap : heap'[m] = heap[m]
              /\ \A j \in 1..Len(ops) :
                    /\ moms'[c][n + j] \notin DOMAIN heap
                    /\ heap'[moms'[c][n + j]] = <<ops[j]>>]_vars

\* two Instructions appended in one NEW call to the empty circuit 1
C5_Witness ==
    /\ IsOpsCall(call, "NEW")
    /\ call.c = 1
    /\ err = OK
    /\ Len(call.item.elems) = 2
    /\ Len(moms[1]) = 2
    /\ \A j \in 1..2 : Instrs(1, j) = <<CallOps(call)[j]>>

\* C6: under NEW, an Instruction appended to a circuit that already holds an
\* operation is placed alone in a fresh Moment at the end of the moment list.
C6_NewFreshMoment ==
    [][\A o \in OpIds :
          (IsOpCall(call', o, "NEW") /\ err' = OK
              /\ \E i \in 1..Len(moms[call'.c]) : Instrs(call'.c, i) # <<>>) =>
              OpensMoment(call'.c, <<o>>)]_vars

\* C7: a NEW_THEN_INLINE call places its first Instruction as a NEW call would
\* and the remaining ones as an INLINE call would, from every reachable state
\* (so also right after an earlier NEW_THEN_INLINE call).
C7_NewThenInline ==
    [][IsOpsCall(call', "NEW_THEN_INLINE") =>
          LET c   == call'.c
              ops == call'.item.elems
              s1  == DoAppend(State, c, Single(ops[1]), "NEW")
              s2  == IF s1.err # OK \/ Len(ops) = 1 THEN s1
                     ELSE DoAppend(s1, c, List(Tail(ops)), "INLINE")
          IN  /\ heap' = s2.heap
              /\ moms' = s2.moms
              /\ table' = s2.table
              /\ err' = s2.err]_vars

\* a NEW_THEN_INLINE call of two Instructions on a non-empty circuit 1: the
\* first opened a Moment, the second joined it
C7_Witness ==
    /\ IsOpsCall(call, "NEW_THEN_INLINE")
    /\ call.c = 1
    /\ err = OK
    /\ Len(call.item.elems) = 2
    /\ Len(moms[1]) = 2
    /\ Instrs(1, 1) # <<>>
    /\ Instrs(1, 2) = CallOps(call)

\* C8: appending an Instruction that touches a qubit >= num_qubits fails with
\* OutOfRangeResource and leaves the moment list as it was.
C8_OutOfRangeUnchanged ==
    [][\A o \in OpIds :
          (call'.op = "append" /\ call'.item = Single(OpElem(o))
              /\ ~ValidInstruction(o, NumQubits[call'.c])) =>
              /\ err' = "OutOfRangeResource"
              /\ moms' = moms
              /\ heap' = heap]_vars

\* invariant I2 on one ParameterTable
I2(t) == \A s, u \in DOMAIN t : s # u => SymName[s] # SymName[u]

\* Instruction o carries a Parameter that is not in table t while another
\* Parameter of the same name is
Clashes(t, o) ==
    \E i \in 1..Len(OpParams[o]) :
        LET p == OpParams[o][i] IN
        /\ p \in Symbols
        /\ p \notin DOMAIN t
        /\ \E u \in DOMAIN t : u # p /\ SymName[u] = SymName[p]

\* every Parameter slot of Instruction o is recorded in table t
Recorded(t, o) ==
    \A i \in 1..Len(OpParams[o]) :
        LET p == OpParams[o][i] IN
        p \in Symbols =>
            /\ p \in DOMAIN t
            /\ \E k \in 1..Len(t[p]) : t[p][k] = <<o, i - 1>>

\* the Instructions whose Parameters the recorded call registers: the appended
\* Instruction, or those of the appended Moment (as held before the call)
Registers(cl) ==
    IF cl.op # "append" \/ cl.item.kind # "single" THEN <<>>
    ELSE LET e == cl.item.elems[1] IN
         IF e.k = "op" /\ ValidInstruction(e.id, NumQubits[cl.c]) THEN <<e.id>>
         ELSE IF e.k = "moment" /\ ValidMoment(heap[e.id], NumQubits[cl.c]) THEN heap[e.id]
         ELSE <<>>

C10_RegisterIdempotent ==
    [][(Registers(call') # <<>>
          /\ \A j \in 1..Len(Registers(call')) : Recorded(table[call'.c], Registers(call')[j])) =>
              /\ table' = table
              /\ err' = IF call'.item.elems[1].k = "op" /\ EffRule(call') \notin Rules
                        THEN "UnsupportedUpdateRule" ELSE OK]_vars

\* Instruction 5 (Parameter s1 in slot 0) was appended a second time: it sits
\* in two Moments and s1 has one binding
C10_Witness ==
    /\ IsOpCall(call, 5, "NEW")
    /\ err = OK
    /\ Len(moms[1]) = 2
    /\ Instrs(1, 1) = <<5>>
    /\ Instrs(1, 2) = <<5>>
    /\ table[1]["s1"] = << <<5, 0>> >>

\* the (Instruction, slot) positions of Parameter s in the Instructions ops,
\* from Instruction j, slot i on, in order
RECURSIVE Positions(_, _, _, _)
Positions(ops, s, j, i) ==
    IF j > Len(ops) THEN <<>>
    ELSE IF i > Len(OpParams[ops[j]]) THEN Positions(ops, s, j + 1, 1)
    ELSE (IF OpParams[ops[j]][i] = s THEN << <<ops[j], i - 1>> >> ELSE <<>>)
             \o Positions(ops, s, j, i + 1)

\* the bindings of Parameter s in table t; none when s is no key of t
Bindings(t, s) == IF s \in DOMAIN t THEN t[s] ELSE <<>>

RECURSIVE CountUpTo(_, _)
CountUpTo(c, i) == IF i = 0 THEN 0 ELSE CountUpTo(c, i - 1) + Len(Instrs(c, i))

\* C12: in every reachable state num_gates() is the sum of the Moments'
\* operation counts, and the flattened view `instructions` is the concatenation
\* of the Moments' operation lists in Moment order: the j-th operation of the
\* i-th Moment sits at position (operations in Moments before i) + j.
C12_NumGatesIsSum ==
    \A c \in Circuits :
        /\ NumGates(heap, moms[c]) = CountUpTo(c, Len(moms[c]))
        /\ Len(Instructions(heap, moms[c])) = CountUpTo(c, Len(moms[c]))
        /\ \A i \in 1..Len(moms[c]) : \A j \in 1..Len(Instrs(c, i)) :
              Instructions(heap, moms[c])[CountUpTo(c, i - 1) + j] = Instrs(c, i)[j]

\* circuit 1 holds two Moments with different contents, three operations in all
C12_Witness ==
    /\ call.op = "append"
    /\ Len(moms[1]) = 2
    /\ Len(Instrs(1, 1)) = 2
    /\ Len(Instrs(1, 2)) = 1
    /\ Instrs(1, 2)[1] # Instrs(1, 1)[1]
    /\ NumGates(heap, moms[1]) = 3

\* the Moment structure of circuit c: the instruction list of each Moment, in
\* Moment order
Structure(c) == [i \in 1..Len(moms[c]) |-> Instrs(c, i)]

IsSubCall(cl, sub) ==
    /\ cl.op = "append"
    /\ cl.item = Single(CircuitElem(sub))

\* the qubits of Instruction o, rewritten through mapping
Remapped(o, mapping) == {mapping[q + 1] : q \in OpQubits[o]}

\* C14: appending a sub-circuit needs an explicit qubit mapping.  Without one
\* the append fails and adds nothing to the parent; with one, the parent gains
\* one Moment per Moment of the sub-circuit, whose operations are those of the
\* sub-circuit's Moment with their qubits rewritten through the mapping.
C14_SubCircuitRemapped ==
    [][\A sub \in Circuits :
          IsSubCall(call', sub) =>
              LET c == call'.c
                  n == Len(moms[c])
              IN  IF call'.mapping = "None"
                  THEN /\ err' # OK
                       /\ moms'[c] = moms[c]
                  ELSE err' = OK =>
                       /\ Len(moms'[c]) = n + Len(moms[sub])
                       /\ \A j \in 1..Len(moms[sub]) :
                             LET old == heap[moms[sub][j]]
                                 new == heap'[moms'[c][n + j]]
                             IN  /\ Len(new) = Len(old)
                                 /\ \A k \in 1..Len(old) :
                                       OpQubits[new[k]] = Remapped(old[k], call'.mapping)]_vars

\* the step leaves the moment list of circuit c and the operation list of each
\* of its Moments as they are
SameStructure(c) ==
    /\ moms'[c] = moms[c]
    /\ \A i \in 1..Len(moms[c]) : heap'[moms[c][i]] = heap[moms[c][i]]

\* C15: a parent holds copies of the Moments of a child circuit appended to
\* it: an append to the child (circuit 2) leaves the parent (circuit 1) as it
\* is, and an append of Instructions to the parent leaves the child as it is.
\* (The two circuits share nothing before the child is appended to the parent.)
C15_SubCircuitCopied ==
    [][/\ (call'.op = "append" /\ call'.c = 2) => SameStructure(1)
       /\ (call'.op = "append" /\ call'.c = 1 /\ ~IsSubCall(call', 2)) => SameStructure(2)]_vars

\* the recorded call is c.append(m) for one Moment object m
IsMomentCall(cl, m) ==
    /\ cl.op = "append"
    /\ cl.item = Single(MomentElem(m))

IsMomentsCall(cl) ==
    /\ cl.op = "append"
    /\ cl.item.kind # "none"
    /\ cl.item.elems # <<>>
    /\ \A i \in 1..Len(cl.item.elems) : cl.item.elems[i].k = "moment"

\* C17: the moment list grows only at its end.  Every append call leaves the
\* Moments that were in the list at their positions, and a call that appends
\* the Moments M1, ..., Mk leaves them behind the earlier ones, in that order.
C17_GrowsAtEnd ==
    [][call'.op = "append" =>
          LET c == call'.c
              n == Len(moms[c])
          IN  /\ Len(moms'[c]) >= n
              /\ SubSeq(moms'[c], 1, n) = moms[c]
              /\ (IsMomentsCall(call') /\ err' = OK) =>
                    moms'[c] = moms[c] \o CallOps(call')]_vars

\* the recorded call appends a list of two or more elements
IsListCall(cl) ==
    /\ cl.op = "append"
    /\ cl.item.kind = "list"
    /\ Len(cl.item.elems) >= 2

\* C18: an append of a list is not atomic.  When the call fails, it failed at
\* the first element j with which the list cannot be appended: elements 1..j-1
\* are placed exactly as a call with only these elements places them, and no
\* later element is placed (for j = 1: the circuit holds the operations it
\* held, in the same order).
C18_PartialAppendKept ==
    [][(IsListCall(call') /\ err' # OK) =>
          LET c      == call'.c
              elems  == call'.item.elems
              Pre(j) == DoAppend(State, c, List(SubSeq(elems, 1, j)), call'.rule)
          IN  \E j \in 1..Len(elems) :
                  /\ Pre(j).err = err'
                  /\ IF j = 1
                     THEN Instructions(heap', moms'[c]) = Instructions(heap, moms[c])
                     ELSE /\ Pre(j - 1).err = OK
                          /\ heap' = Pre(j - 1).heap
                          /\ moms' = Pre(j - 1).moms]_vars

\* a NEW call with the list [A, B] failed at B, which is out of range; A sits
\* in a Moment of its own behind the earlier ones
C18_Witness ==
    /\ IsOpsCall(call, "NEW")
    /\ IsListCall(call)
    /\ call.c = 1
    /\ err = "OutOfRangeResource"
    /\ ValidInstruction(CallOps(call)[1], NumQubits[1])
    /\ ~ValidInstruction(CallOps(call)[2], NumQubits[1])
    /\ Len(moms[1]) = 2
    /\ Instrs(1, 2) = <<CallOps(call)[1]>>

\* the recorded call hands append None, or a value that is no Instruction, no
\* Moment and no Circuit
IsUntypedCall(cl) ==
    /\ cl.op = "append"
    /\ \/ cl.item.kind = "none"
       \/ cl.item = Single(JunkElem)

\* C19: append fails with TypeMismatch for None and for a value that is no
\* Instruction, no Moment and no Circuit; no such call returns normally.
C19_UntypedRejected ==
    [][IsUntypedCall(call') => err' = "TypeMismatch"]_vars

\* element e of an appended list is an Instruction, a Moment or a Circuit all
\* of whose operations are in the range of circuit c
InRange(e, c) ==
    CASE e.k = "op"      -> ValidInstruction(e.id, NumQubits[c])
      [] e.k = "moment"  -> ValidMoment(heap[e.id], NumQubits[c])
      [] e.k = "circuit" -> \A i \in 1..Len(moms[e.id]) :
                                ValidMoment(Instrs(e.id, i), NumQubits[c])
      [] OTHER -> FALSE

\* C20: an append whose rule (the argument, or the circuit's default when the
\* argument is None) is none of EARLIEST, INLINE, NEW, NEW_THEN_INLINE fails
\* with UnsupportedUpdateRule and places no operation, whether the item is an
\* Instruction, a Moment, a list of them or a Circuit (all in range).
C20_UnsupportedRuleRejected ==
    [][(/\ call'.op = "append"
        /\ call'.item.kind # "none"
        /\ call'.item.elems # <<>>
        /\ \A i \in 1..Len(call'.item.elems) : InRange(call'.item.elems[i], call'.c)
        /\ EffRule(call') \notin Rules) =>
           /\ err' = "UnsupportedUpdateRule"
           /\ Instructions(heap', moms'[call'.c]) = Instructions(heap, moms[call'.c])]_vars

\* sequence a is the beginning of sequence b
IsPrefix(a, b) == Len(a) <= Len(b) /\ SubSeq(b, 1, Len(a)) = a

\* the number of positions of the moment list ms that hold Moment object m
Occurrences(ms, m) == Cardinality({i \in 1..Len(ms) : ms[i] = m})

\* C21: nothing is ever deleted.  Over every step - an append that succeeds or
\* fails, on any circuit - no moment list gets shorter, every Moment object
\* stays in each list as often as it was there, every Moment keeps the
\* operations it held (in order, at the front of its list), and every
\* Parameter of a ParameterTable stays a key with the bindings it had.
C21_NothingDeleted ==
    [][/\ \A c \in Circuits :
             /\ Len(moms'[c]) >= Len(moms[c])
             /\ \A m \in DOMAIN heap : Occurrences(moms'[c], m) >= Occurrences(moms[c], m)
             /\ \A s \in DOMAIN table[c] :
                   /\ s \in DOMAIN table'[c]
                   /\ IsPrefix(table[c][s], table'[c][s])
       /\ \A m \in DOMAIN heap :
             /\ m \in DOMAIN heap'
             /\ IsPrefix(heap[m], heap'[m])]_vars

\* an append failed with NameConflict on a circuit of two Moments whose table
\* holds two bindings of one Parameter: all of it is still there
C21_Witness ==
    /\ call.op = "append"
    /\ call.c = 1
    /\ err = "NameConflict"
    /\ Len(moms[1]) = 2
    /\ \A i \in 1..2 : Instrs(1, i) # <<>>
    /\ "s1" \in DOMAIN table[1]
    /\ Len(table[1]["s1"]) = 2

Max(a, b) == IF a >= b THEN a ELSE b
Min(a, b) == IF a <= b THEN a ELSE b

\* C22: a Moment handed to _update with index i, on a moment list of length L,
\* is inserted at position k = max(min(i >= 0 ? i : L + i, L), 0): k lies in
\* 0..L, an index in 0..L is taken as it is, a larger one gives L, a negative
\* one counts from the end and gives 0 when it reaches beyond the front.
C22_IndexNormalized ==
    [][call'.op = "_update" =>
          LET c == call'.c
              m == call'.item.elems[1].id
              L == Len(moms[c])
              i == call'.index
              k == Max(Min(IF i >= 0 THEN i ELSE L + i, L), 0)
          IN  /\ k \in 0..L
              /\ i \in 0..L => k = i
              /\ i > L => k = L
              /\ i \in -L..-1 => k = L + i
              /\ i < -L => k = 0
              /\ moms'[c] = InsertAt(moms[c], k, m)
              /\ moms'[c][k + 1] = m]_vars

\* a Moment was handed over with index -1 on a list of two Moments: it sits
\* between them
C22_Witness ==
    /\ call.op = "_update"
    /\ call.index = -1
    /\ Len(moms[1]) = 3
    /\ moms[1][2] = call.item.elems[1].id

\* Instruction o is held in some Moment of circuit c
Held(c, o) ==
    \E i \in 1..Len(moms[c]) : \E k \in 1..Len(Instrs(c, i)) : Instrs(c, i)[k] = o

\* C23: every binding of a circuit's ParameterTable names an Instruction that
\* some Moment of the circuit holds, and an append that fails (NameConflict,
\* range validation, unsupported rule) leaves the ParameterTable as it was.
C23_BindingsOfHeldOps ==
    /\ [](\A c \in Circuits : \A s \in DOMAIN table[c] :
            \A k \in 1..Len(table[c][s]) : Held(c, table[c][s][k][1]))
    /\ [][(call'.op = "append" /\ err' # OK) => table' = table]_vars

\* C24: in every reachable state, every operation held in a Moment of a circuit
\* touches only qubits below that circuit's num_qubits - also after a Moment
\* or sub-circuit appended to it has been extended through the circuit it came
\* from.
C24_HeldOpsInRange ==
    \A c \in Circuits : \A i \in 1..Len(moms[c]) :
        \A k \in 1..Len(Instrs(c, i)) :
            \A q \in OpQubits[Instrs(c, i)[k]] : q < NumQubits[c]

\* the step is an iteration of the loop of a running sub-circuit append
IsIteration ==
    /\ err = "running"
    /\ call'.op = "_append_circuit"
    /\ call'.j = call.j + 1

\* C25: every append of a Circuit terminates, also of a circuit to itself: the
\* loop takes exactly the Moments the sub-circuit held when the call began.
\* Each iteration takes one of these n0 Moments and leaves fewer Moments to
\* take than before, and the call returns after n0 iterations.
C25_AppendCircuitTerminates ==
    [][/\ IsIteration =>
             LET sub == call.item.elems[1].id IN
             /\ call'.j <= call.n0
             /\ Len(moms'[sub]) - call'.j < Len(moms[sub]) - call.j
       /\ (err = "running" /\ err' = OK) => call.j = call.n0]_vars

\* C26: the headers mirror the credentials: a non-empty user_email is the
\* 'email' header and a non-empty refresh_token is the 'refresh-token' header
C26_HeadersMirrorCredentials ==
    /\ session.user_email # "" => session.headers.email = session.user_email
    /\ session.refresh_token # <<>> => session.headers.token = session.refresh_token

\* text t occurs in text s
Contains(s, t) ==
    \E i \in 1..(Len(s) - Len(t) + 1) : SubSeq(s, i, i + Len(t) - 1) = t

IsFailedRequest == call.op = "request" /\ call.args[1].kind = "exception"

\* C27: a request that fails raises RequestsApiError, and the refresh token of
\* the session does not occur in the message raised
C27_TokenMasked ==
    IsFailedRequest =>
        /\ err = "RequestsApiError"
        /\ session.refresh_token # <<>> => ~Contains(message, session.refresh_token)

====
